---- MODULE Spec2Model ----
(***************************************************************************)
(* Model of recursivist/compare.py: the comparison of two directory        *)
(* structures, the interactive diff tree (build_comparison_tree,           *)
(* display_comparison) and the text and HTML exports (export_comparison).  *)
(*                                                                         *)
(* A directory structure is the Python dict that get_directory_structure   *)
(* returns: folder name -> nested dict, plus the reserved key "_files"     *)
(* holding the list of file names.  It is modelled as the record           *)
(*   [hasFiles |-> "_files" in d, files |-> d["_files"],                  *)
(*    dirs |-> the dict restricted to its folder keys]                    *)
(* so that a file list is never compared with a nested dict.               *)
(***************************************************************************)
EXTENDS Integers, Sequences, FiniteSets, TLC

(* ------------------------------ bounds --------------------------------- *)

\* Largest number of entries (files and folders, at every depth) of the two
\* structures together.
MaxEntries == 4

\* The names a walk can meet.  "R&D" sorts before the key "_files" and "src"
\* after it; "a.txt" sorts before "b.py" by name and after it by type.
DirNames == {"R&D", "src"}
FileNames == {"a.py", "b.py", "a.txt"}

\* os.path.basename(dir1), os.path.basename(dir2), and the two paths.
dir1_name == "v1"
dir2_name == "v2-next"
dir1_path == "/w/v1"
dir2_path == "/w/v2-next"

(* --------------------------- Python helpers ---------------------------- *)

\* Python's str ordering (by code point) on the strings of the model:
\* "." < "R" < "_" < "a" < "b" < "s".
StrOrder ==
    <<".py", ".txt", "R&D", "_files", "a.py", "a.txt", "b.py", "src">>

StrRank(s) == CHOOSE i \in 1..Len(StrOrder) : StrOrder[i] = s

StrLess(a, b) == StrRank(a) < StrRank(b)

\* os.path.splitext(file)[1]
splitext(file) ==
    CASE file = "a.py" -> ".py"
      [] file = "b.py" -> ".py"
      [] file = "a.txt" -> ".txt"

\* x in list
InList(x, list) == \E i \in 1..Len(list) : list[i] = x

Max(a, b) == IF a >= b THEN a ELSE b

\* sorted(keys): the keys in ascending str order.
RECURSIVE sorted(_)
sorted(keys) ==
    IF keys = {} THEN <<>>
    ELSE LET m == CHOOSE k \in keys : \A o \in keys \ {k} : StrLess(k, o)
         IN <<m>> \o sorted(keys \ {m})

\* recursivist.core.sort_files_by_type: a new list, ordered by extension and
\* then by name.
FileLess(f, g) ==
    \/ StrLess(splitext(f), splitext(g))
    \/ splitext(f) = splitext(g) /\ StrLess(f, g)

RECURSIVE SortFileSet(_)
SortFileSet(fs) ==
    IF fs = {} THEN <<>>
    ELSE LET m == CHOOSE f \in fs : \A o \in fs \ {f} : FileLess(f, o)
         IN <<m>> \o SortFileSet(fs \ {m})

sort_files_by_type(files) == SortFileSet({files[i] : i \in 1..Len(files)})

(* ----------------------------- structures ------------------------------ *)

\* The dict {}.
EmptyDict == [d \in {} |-> 0]
EmptyStructure == [hasFiles |-> FALSE, files |-> <<>>, dirs |-> EmptyDict]

\* bool(d) for a dict: it has at least one key.
Truthy(s) == s.hasFiles \/ DOMAIN s.dirs # {}

\* The keys of the dict, "_files" included.
Keys(s) == DOMAIN s.dirs \cup (IF s.hasFiles THEN {"_files"} ELSE {})

\* d.get("_files", [])
GetFiles(s) == IF s.hasFiles THEN s.files ELSE <<>>

\* d.get(folder, {})
GetFolder(s, folder) ==
    IF folder \in DOMAIN s.dirs THEN s.dirs[folder] ELSE EmptyStructure

\* File lists as a walk produces them: no name twice, in any order.
FileLists(n) ==
    {f \in UNION {[1..k -> FileNames] :
                    k \in 0..(IF n < Cardinality(FileNames)
                              THEN n ELSE Cardinality(FileNames))} :
        \A i, j \in 1..Len(f) : i # j => f[i] # f[j]}

RECURSIVE Size(_)
RECURSIVE SumSizes(_, _)
SumSizes(dirs, names) ==
    IF names = {} THEN 0
    ELSE LET d == CHOOSE x \in names : TRUE
         IN 1 + Size(dirs[d]) + SumSizes(dirs, names \ {d})

\* Number of entries of a structure, at every depth.
Size(s) == Len(s.files) + SumSizes(s.dirs, DOMAIN s.dirs)

\* The dicts with the folders of names as keys and at most budget entries
\* (the folders and what is below them), given in table[k + 1] the
\* structures with at most k entries, k < budget.
RECURSIVE FolderDicts(_, _, _)
FolderDicts(names, budget, table) ==
    IF names = {} THEN {EmptyDict}
    ELSE IF budget < Cardinality(names) THEN {}
    ELSE LET d == CHOOSE x \in names : TRUE
         IN UNION {
              {[x \in names |-> IF x = d THEN s ELSE rest[x]] :
                  rest \in FolderDicts(names \ {d}, budget - 1 - Size(s),
                                       table)} :
              s \in table[budget - Cardinality(names) + 1]}

\* Every structure get_directory_structure can return with at most n
\* entries: "_files" is present exactly when the directory has files.
Structures(n, table) ==
    UNION {
        {[hasFiles |-> f # <<>>, files |-> f, dirs |-> sub] :
            sub \in FolderDicts(D, n - Len(f), table)} :
        f \in FileLists(n), D \in SUBSET DirNames}

RECURSIVE StructureTable(_, _)
StructureTable(n, table) ==
    IF n > MaxEntries THEN table
    ELSE StructureTable(n + 1, Append(table, Structures(n, table)))

\* StructuresBySize[n + 1]: the structures with at most n entries.
StructuresBySize == StructureTable(0, <<>>)

(* ------------------------- build_comparison_tree ----------------------- *)

\* One tree.add: the label's name, whether it is a file or a folder, and the
\* background/foreground tag of its style ("common" for no tag).  path is the
\* chain of folder labels from the root of the Tree down to the node the
\* entry was added to.
TreeEntry(path, name, kind, tag) ==
    [path |-> path, name |-> name, kind |-> kind, tag |-> tag]

RECURSIVE build_comparison_tree(_, _, _)

\* Lines 89-100: the files of this node, tagged green when the other node
\* does not list them.
OwnFiles(structure, other_structure, path) ==
    LET files_in_other ==
            IF Truthy(other_structure) THEN GetFiles(other_structure) ELSE <<>>
        files == sort_files_by_type(structure.files)
    IN IF structure.hasFiles
       THEN [i \in 1..Len(files) |->
                TreeEntry(path, files[i], "file",
                    IF ~InList(files[i], files_in_other)
                    THEN "green" ELSE "common")]
       ELSE <<>>

\* OwnFolders with the subtree of a folder compared with the other node
\* itself, in place of the other node's folder of that name (line 104).
OwnFoldersSameSibling(structure, other_structure, path) ==
    LET folders == sorted(DOMAIN structure.dirs)
        added[i \in 0..Len(folders)] ==
            IF i = 0 THEN <<>>
            ELSE LET folder == folders[i]
                     tag == IF folder \notin DOMAIN other_structure.dirs
                            THEN "green" ELSE "common"
                 IN added[i - 1]
                    \o <<TreeEntry(path, folder, "dir", tag)>>
                    \o build_comparison_tree(structure.dirs[folder],
                            other_structure, path \o <<folder>>)
    IN added[Len(folders)]

\* Lines 102-111: the folders of this node in sorted order, each followed by
\* its subtree.
OwnFolders(structure, other_structure, path) ==
    LET folders == sorted(DOMAIN structure.dirs)
        added[i \in 0..Len(folders)] ==
            IF i = 0 THEN <<>>
            ELSE LET folder == folders[i]
                     content == structure.dirs[folder]
                     other_content ==
                         IF Truthy(other_structure)
                         THEN GetFolder(other_structure, folder)
                         ELSE EmptyStructure
                     tag == IF folder \notin DOMAIN other_structure.dirs
                            THEN "green" ELSE "common"
                 IN added[i - 1]
                    \o <<TreeEntry(path, folder, "dir", tag)>>
                    \o build_comparison_tree(content, other_content,
                                             path \o <<folder>>)
    IN added[Len(folders)]

\* OtherFiles without the test "file not in files_in_this" of line 116.
OtherFilesUnfiltered(structure, other_structure, path) ==
    LET files == sort_files_by_type(other_structure.files)
    IN IF Truthy(other_structure) /\ other_structure.hasFiles
       THEN [i \in 1..Len(files) |-> TreeEntry(path, files[i], "file", "red")]
       ELSE <<>>

\* Lines 113-120: the files of the other node that this node does not list,
\* tagged red.
OtherFiles(structure, other_structure, path) ==
    LET files_in_this == GetFiles(structure)
        files == sort_files_by_type(other_structure.files)
    IN IF Truthy(other_structure) /\ other_structure.hasFiles
       THEN SelectSeq(
                [i \in 1..Len(files) |->
                    TreeEntry(path, files[i], "file", "red")],
                LAMBDA e : ~InList(e.name, files_in_this))
       ELSE <<>>

\* OtherFolders without the test "folder not in structure" of line 124.
OtherFoldersUnfiltered(structure, other_structure, path) ==
    LET folders == IF Truthy(other_structure)
                   THEN sorted(DOMAIN other_structure.dirs) ELSE <<>>
        added[i \in 0..Len(folders)] ==
            IF i = 0 THEN <<>>
            ELSE added[i - 1]
                 \o <<TreeEntry(path, folders[i], "dir", "red")>>
                 \o build_comparison_tree(EmptyStructure,
                        other_structure.dirs[folders[i]],
                        path \o <<folders[i]>>)
    IN added[Len(folders)]

\* Lines 122-128: the folders of the other node that this node does not have,
\* tagged red, each followed by its subtree (rendered from the empty dict).
OtherFolders(structure, other_structure, path) ==
    LET folders == IF Truthy(other_structure)
                   THEN sorted(DOMAIN other_structure.dirs) ELSE <<>>
        added[i \in 0..Len(folders)] ==
            IF i = 0 THEN <<>>
            ELSE LET folder == folders[i]
                 IN IF folder \notin DOMAIN structure.dirs
                    THEN added[i - 1]
                         \o <<TreeEntry(path, folder, "dir", "red")>>
                         \o build_comparison_tree(EmptyStructure,
                                other_structure.dirs[folder],
                                path \o <<folder>>)
                    ELSE added[i - 1]
    IN added[Len(folders)]

\* build_comparison_tree without lines 113-128: only this node's own files
\* and folders are added.
build_comparison_tree_own(structure, other_structure, path) ==
    OwnFiles(structure, other_structure, path)
    \o OwnFolders(structure, other_structure, path)

\* The entries added to the Tree, in the order of the tree.add calls.
build_comparison_tree(structure, other_structure, path) ==
    OwnFiles(structure, other_structure, path)
    \o OwnFolders(structure, other_structure, path)
    \o OtherFiles(structure, other_structure, path)
    \o OtherFolders(structure, other_structure, path)

(* ----------------------- _export_comparison_to_txt --------------------- *)

\* One line of a column.  The text of an entry line is
\*   prefix + connector + glyph + " " + name
\* where prefix is a chain of 4-character units ("bar" for the vertical bar
\* and three spaces, "blank" for four spaces), connector is the 4-character
\* tee ("mid") or elbow ("last"), and glyph is the folder or file sign.
\* path is the chain of folders the recursion went down to reach the line.
RootLine(name) == [kind |-> "root", name |-> name]

EntryLine(prefix, connector, glyph, name, path) ==
    [kind |-> "entry", prefix |-> prefix, connector |-> connector,
     glyph |-> glyph, name |-> name, path |-> path]

EmptyLine == [kind |-> "empty"]

\* len(line)
LineLen(line) ==
    CASE line.kind = "root" -> 2 + Len(line.name)
      [] line.kind = "entry" -> 4 * Len(line.prefix) + 4 + 2 + Len(line.name)
      [] line.kind = "empty" -> 0

RECURSIVE _build_txt_tree(_, _, _, _)

\* _build_txt_tree without the recursion of line 343.
_build_txt_tree_flat(structure, prefix, is_last, path) ==
    LET items == sorted(Keys(structure))
        n == Len(items)
        folders == SelectSeq(items, LAMBDA name : name # "_files")
        files == sort_files_by_type(structure.files)
    IN [k \in 1..Len(folders) |->
            EntryLine(prefix, IF k = Len(folders) THEN "last" ELSE "mid",
                      "dir", folders[k], path)]
       \o (IF structure.hasFiles
           THEN [k \in 1..Len(files) |->
                    EntryLine(prefix,
                              IF k = Len(files) THEN "last" ELSE "mid",
                              "file", files[k], path)]
           ELSE <<>>)

_build_txt_tree(structure, prefix, is_last, path) ==
    LET items == sorted(Keys(structure))
        n == Len(items)
        folderLines[k \in 0..n] ==
            IF k = 0 THEN <<>>
            ELSE IF items[k] = "_files" THEN folderLines[k - 1]
            ELSE LET name == items[k]
                     i == k - 1
                     is_last_item ==
                         \/ i = n - 1
                         \/ i = n - 2 /\ structure.hasFiles
                     new_prefix ==
                         prefix \o <<IF is_last_item THEN "blank" ELSE "bar">>
                 IN folderLines[k - 1]
                    \o <<EntryLine(prefix,
                                   IF is_last_item THEN "last" ELSE "mid",
                                   "dir", name, path)>>
                    \o _build_txt_tree(structure.dirs[name], new_prefix,
                                       is_last_item, path \o <<name>>)
        files == sort_files_by_type(structure.files)
        fileLines ==
            IF structure.hasFiles
            THEN [k \in 1..Len(files) |->
                    EntryLine(prefix,
                              IF k - 1 = Len(files) - 1 THEN "last" ELSE "mid",
                              "file", files[k], path)]
            ELSE <<>>
    IN folderLines[n] \o fileLines

\* dir1_lines and dir2_lines.
TxtColumn(name, structure) ==
    <<RootLine(name)>> \o _build_txt_tree(structure, <<>>, TRUE, <<>>)

RECURSIVE MaxLineLen(_)
MaxLineLen(lines) ==
    IF Len(lines) = 1 THEN LineLen(lines[1])
    ELSE Max(LineLen(Head(lines)), MaxLineLen(Tail(lines)))

\* The width taken over the lines of both columns.
max_width_both(dir1_lines, dir2_lines) ==
    MaxLineLen(dir1_lines \o dir2_lines) + 4

\* max(len(line) for line in dir1_lines) + 4
max_width(dir1_lines, dir2_lines) == MaxLineLen(dir1_lines) + 4

\* f"{left:<{max_width}} | {right}": left, then the spaces that fill it up to
\* max_width (none when it is as long or longer), then " | ", then right.
Row(left, width, right) ==
    [kind |-> "row", left |-> left,
     padding |-> Max(0, width - LineLen(left)), bar |-> " | ",
     right |-> right]

\* The metadata of an export: the patterns as given and their type.
Metadata(exclude_patterns, include_patterns, use_regex) ==
    [exclude_patterns |-> exclude_patterns,
     include_patterns |-> include_patterns,
     pattern_type |-> IF use_regex THEN "regex" ELSE "glob"]

TextLine(text) == [kind |-> "text", text |-> text]
RuleLine(char) == [kind |-> "rule", char |-> char, width |-> 80]
PatternLine(which, metadata, patterns) ==
    [kind |-> "patterns", which |-> which,
     pattern_type |-> metadata.pattern_type, patterns |-> patterns]

\* combined_lines, the lines written to the output file.
_export_comparison_to_txt(s1, s2, metadata) ==
    LET dir1_lines == TxtColumn(dir1_name, s1)
        dir2_lines == TxtColumn(dir2_name, s2)
        width == max_width(dir1_lines, dir2_lines)
        header ==
            <<TextLine("Directory Comparison:"), RuleLine("="),
              TextLine("Left: " \o dir1_path),
              TextLine("Right: " \o dir2_path)>>
        patterns ==
            IF metadata.exclude_patterns # <<>>
               \/ metadata.include_patterns # <<>>
            THEN <<RuleLine("-")>>
                 \o (IF metadata.exclude_patterns # <<>>
                     THEN <<PatternLine("Exclude", metadata,
                                        metadata.exclude_patterns)>>
                     ELSE <<>>)
                 \o (IF metadata.include_patterns # <<>>
                     THEN <<PatternLine("Include", metadata,
                                        metadata.include_patterns)>>
                     ELSE <<>>)
            ELSE <<>>
        rows ==
            [i \in 1..Max(Len(dir1_lines), Len(dir2_lines)) |->
                Row(IF i <= Len(dir1_lines) THEN dir1_lines[i] ELSE EmptyLine,
                    width,
                    IF i <= Len(dir2_lines) THEN dir2_lines[i] ELSE EmptyLine)]
    IN header \o patterns \o <<RuleLine("=")>> \o rows

(* ----------------------- _export_comparison_to_html -------------------- *)

\* html.escape on the strings of the model.
html_escape(text) == IF text = "R&D" THEN "R&amp;D" ELSE text

Tag(name) == [tok |-> name]

\* <li class><span class="directory|file">glyph text</span>; name and path
\* tell which entry of the structure the item stands for.
Item(class, span, name, path) ==
    [tok |-> "li", class |-> class, span |-> span,
     text |-> html_escape(name), name |-> name, path |-> path]

\* The structure a node is compared with: the whole structure of dir2 when
\* the node equals the whole structure of dir1, else the whole structure of
\* dir1.
OtherStructure(structure, s1, s2) == IF structure = s1 THEN s2 ELSE s1

RECURSIVE _build_html_tree(_, _, _, _, _)
_build_html_tree(structure, include_differences, s1, s2, path) ==
    LET folders == sorted(DOMAIN structure.dirs)
        other_structure == OtherStructure(structure, s1, s2)
        folderItems[i \in 0..Len(folders)] ==
            IF i = 0 THEN <<>>
            ELSE LET name == folders[i]
                     dir_class ==
                         IF include_differences
                            /\ name \notin DOMAIN other_structure.dirs
                         THEN "directory-unique" ELSE ""
                 IN folderItems[i - 1]
                    \o <<Item(dir_class, "directory", name, path)>>
                    \o _build_html_tree(structure.dirs[name],
                            include_differences, s1, s2, path \o <<name>>)
                    \o <<Tag("/li")>>
        files == sort_files_by_type(structure.files)
        other_files == GetFiles(other_structure)
        fileItems ==
            IF structure.hasFiles
            THEN [i \in 1..Len(files) |->
                    Item(IF include_differences
                            /\ ~InList(files[i], other_files)
                         THEN "file-unique" ELSE "",
                         "file", files[i], path)]
            ELSE <<>>
    IN <<Tag("ul")>> \o folderItems[Len(folders)] \o fileItems
       \o <<Tag("/ul")>>

\* The parts of html_template that depend on the comparison.
_export_comparison_to_html(s1, s2, metadata) ==
    [title |-> <<html_escape(dir1_name), html_escape(dir2_name)>>,
     paths |-> <<html_escape(dir1_path), html_escape(dir2_path)>>,
     pattern_items |->
        (IF metadata.exclude_patterns # <<>>
         THEN <<PatternLine("Exclude", metadata,
                    [i \in 1..Len(metadata.exclude_patterns) |->
                        html_escape(metadata.exclude_patterns[i])])>>
         ELSE <<>>)
        \o (IF metadata.include_patterns # <<>>
            THEN <<PatternLine("Include", metadata,
                    [i \in 1..Len(metadata.include_patterns) |->
                        html_escape(metadata.include_patterns[i])])>>
            ELSE <<>>),
     left |-> _build_html_tree(s1, TRUE, s1, s2, <<>>),
     right |-> _build_html_tree(s2, TRUE, s1, s2, <<>>)]

(* ------------------------------- state --------------------------------- *)

VARIABLES
    structure1,   \* what get_directory_structure returns for dir1
    structure2,   \* what get_directory_structure returns for dir2
    tree1,        \* the Tree display_comparison prints in the left panel
    tree2,        \* the Tree display_comparison prints in the right panel
    outFile,      \* the file at output_path
    format,       \* format_type given to export_comparison
    walks,        \* exclude_extensions as each get_directory_structure got it
    pc            \* "start" before the call, then how the call ended

vars == <<structure1, structure2, tree1, tree2, outFile, format, walks, pc>>

\* Bounds of the exclude_extensions a caller gives: the characters of an
\* extension string, its length, and the number of strings in the set.
\* A string is a sequence of characters here, so that lower() and
\* startswith() work on it as they do in Python.
ExtChars == {".", "p", "P"}
MaxExtLen == 2
MaxExts == 2

ExtStrings == UNION {[1..n -> ExtChars] : n \in 0..MaxExtLen}

\* exclude_extensions as the caller can give it.  No string of it is the
\* extension of a file of FileNames, in any case, so every structure is one
\* the walks can return under it.
RECURSIVE SetsUpTo(_)
SetsUpTo(k) ==
    IF k = 0 THEN {{}}
    ELSE LET smaller == SetsUpTo(k - 1)
         IN smaller \cup {exts \cup {ext} :
                              exts \in smaller, ext \in ExtStrings}

ExtensionSets == SetsUpTo(MaxExts)

\* str.lower()
LowerChar(c) == IF c = "P" THEN "p" ELSE c
lower(ext) == [i \in 1..Len(ext) |-> LowerChar(ext[i])]

\* str.startswith(".")
startswith_dot(ext) == Len(ext) >= 1 /\ ext[1] = "."

\* Lines 163-166 and 279-282: the set comprehension that display_comparison
\* and export_comparison apply to exclude_extensions.
normalize_extensions(exclude_extensions) ==
    {IF startswith_dot(ext) THEN lower(ext) ELSE <<".">> \o lower(ext) :
        ext \in exclude_extensions}

\* Lines 50-65: the exclude_extensions of the two get_directory_structure
\* calls of compare_directory_structures, for dir1 and for dir2.
ForwardedToWalks(exclude_extensions) ==
    <<exclude_extensions, exclude_extensions>>

\* format_type as the caller can give it.
Formats == {"txt", "html", "pdf", "TXT"}

\* exclude_patterns, include_patterns, use_regex as the caller can give them.
PatternInputs ==
    {<<<<>>, <<>>, FALSE>>, <<<<"*.log">>, <<"*.md">>, TRUE>>}

NoFile == [exists |-> FALSE]
File(fmt, content) == [exists |-> TRUE, format |-> fmt, content |-> content]

\* A file that something else left at output_path before the call.
StaleFile == File("stale", <<>>)

Init ==
    /\ structure1 \in StructuresBySize[MaxEntries + 1]
    /\ structure2 \in StructuresBySize[MaxEntries - Size(structure1) + 1]
    /\ tree1 = <<>>
    /\ tree2 = <<>>
    /\ outFile \in {NoFile, StaleFile}
    /\ format = "none"
    /\ walks = <<>>
    /\ pc = "start"

\* raise ValueError(message), as the caller sees it.
ValueError(message) == "ValueError: " \o message

\* The structure with every file list sorted in place (list.sort() where the
\* code calls sort_files_by_type, which returns a new list).
RECURSIVE SortedInPlace(_)
SortedInPlace(s) ==
    [hasFiles |-> s.hasFiles,
     files |-> sort_files_by_type(s.files),
     dirs |-> [d \in DOMAIN s.dirs |-> SortedInPlace(s.dirs[d])]]

display_comparison_sorting(exclude_extensions) ==
    /\ pc = "start"
    /\ walks' = ForwardedToWalks(normalize_extensions(exclude_extensions))
    /\ tree1' = build_comparison_tree(structure1, structure2, <<>>)
    /\ tree2' = build_comparison_tree(structure2, structure1, <<>>)
    /\ structure1' = SortedInPlace(structure1)
    /\ structure2' = SortedInPlace(structure2)
    /\ pc' = "displayed"
    /\ UNCHANGED <<outFile, format>>

\* A run of the program makes one call: one of the entry points, once.
\* compare_directory_structures called by itself: the structures of Init
\* are what it returns.
compare_directory_structures(exclude_extensions) ==
    /\ pc = "start"
    /\ walks' = ForwardedToWalks(exclude_extensions)
    /\ pc' = "compared"
    /\ UNCHANGED <<structure1, structure2, tree1, tree2, outFile, format>>

display_comparison(exclude_extensions) ==
    /\ pc = "start"
    /\ walks' = ForwardedToWalks(normalize_extensions(exclude_extensions))
    /\ tree1' = build_comparison_tree(structure1, structure2, <<>>)
    /\ tree2' = build_comparison_tree(structure2, structure1, <<>>)
    /\ pc' = "displayed"
    /\ UNCHANGED <<structure1, structure2, outFile, format>>

\* export_comparison with HTML as the fallback of the dispatch on
\* format_type, in place of the raise.
export_comparison_fallback(format_type, patterns, exclude_extensions) ==
    LET metadata == Metadata(patterns[1], patterns[2], patterns[3])
    IN /\ pc = "start"
       /\ walks' = ForwardedToWalks(normalize_extensions(exclude_extensions))
       /\ format' = format_type
       /\ IF format_type = "txt"
          THEN outFile' = File("txt",
                    _export_comparison_to_txt(structure1, structure2,
                                              metadata))
          ELSE outFile' = File("html",
                    _export_comparison_to_html(structure1, structure2,
                                               metadata))
       /\ pc' = "exported"
       /\ UNCHANGED <<structure1, structure2, tree1, tree2>>

export_comparison(format_type, patterns, exclude_extensions) ==
    LET metadata == Metadata(patterns[1], patterns[2], patterns[3])
    IN /\ pc = "start"
       /\ walks' = ForwardedToWalks(normalize_extensions(exclude_extensions))
       /\ format' = format_type
       /\ IF format_type = "txt"
          THEN /\ outFile' = File("txt",
                    _export_comparison_to_txt(structure1, structure2,
                                              metadata))
               /\ pc' = "exported"
          ELSE IF format_type = "html"
          THEN /\ outFile' = File("html",
                    _export_comparison_to_html(structure1, structure2,
                                               metadata))
               /\ pc' = "exported"
          ELSE /\ outFile' = outFile
               /\ pc' = ValueError("Unsupported format: " \o format_type)
       /\ UNCHANGED <<structure1, structure2, tree1, tree2>>

\* The calls with exclude_extensions drawn from a set of inputs.
Calls(inputs) ==
    \E exclude_extensions \in inputs :
        \/ compare_directory_structures(exclude_extensions)
        \/ display_comparison(exclude_extensions)
        \/ \E format_type \in Formats, patterns \in PatternInputs :
              export_comparison(format_type, patterns, exclude_extensions)

\* The calls without extension exclusions, over all structures.
Next == Calls({{}})

Spec == Init /\ [][Next]_vars

\* The calls with every exclude_extensions of the bounds, over two empty
\* directories.
InitExtensions ==
    /\ Init
    /\ structure1 = EmptyStructure
    /\ structure2 = EmptyStructure

NextExtensions == Calls(ExtensionSets)

SpecExtensions == InitExtensions /\ [][NextExtensions]_vars

(* ------------------------ what the claims speak of ---------------------- *)

\* An entry of a structure: a file or a folder name at a relative path.
Entry(path, name, kind) == [path |-> path, name |-> name, kind |-> kind]

RECURSIVE Entries(_, _)
Entries(s, path) ==
    {Entry(path, s.files[i], "file") : i \in 1..Len(s.files)}
    \cup {Entry(path, d, "dir") : d \in DOMAIN s.dirs}
    \cup UNION {Entries(s.dirs[d], path \o <<d>>) : d \in DOMAIN s.dirs}

\* The entry a tree entry, an HTML item or a line of a column stands for.
EntryOf(e) == Entry(e.path, e.name, e.kind)
ItemEntry(item) ==
    Entry(item.path, item.name,
          IF item.span = "directory" THEN "dir" ELSE "file")
LineEntry(line) == Entry(line.path, line.name, line.glyph)

\* The entries of a Tree that carry the given tag.
Tagged(tree, tag) ==
    {EntryOf(tree[i]) : i \in {k \in 1..Len(tree) : tree[k].tag = tag}}

\* How often an entry is in a sequence of tree entries.
Occurrences(seq, x) ==
    Cardinality({i \in 1..Len(seq) : EntryOf(seq[i]) = x})

(* ------------------------------- claims -------------------------------- *)

\* C1: symmetry of the two renders of display_comparison: the entries tagged
\* green in render(S1, S2) are exactly those tagged red in render(S2, S1),
\* and the other way round, and no entry is green in both.
C1_Symmetry ==
    pc = "displayed" =>
        /\ Tagged(tree1, "green") = Tagged(tree2, "red")
        /\ Tagged(tree1, "red") = Tagged(tree2, "green")
        /\ Tagged(tree1, "green") \cap Tagged(tree2, "green") = {}

\* A render where each side has an entry of its own below the root level.
C1_Witness ==
    /\ pc = "displayed"
    /\ \E e \in Tagged(tree1, "green") : e.path # <<>>
    /\ \E e \in Tagged(tree2, "green") : e.kind = "file"
    /\ \E i \in 1..Len(tree1) : tree1[i].tag = "common"

PartitionOf(tree, s, other) ==
    /\ \A x \in Entries(s, <<>>) \cup Entries(other, <<>>) :
            Occurrences(tree, x) = 1
    /\ \A i \in 1..Len(tree) :
        /\ EntryOf(tree[i]) \in Entries(s, <<>>) \cup Entries(other, <<>>)
        /\ tree[i].tag \in {"common", "green", "red"}

\* C3: partition: every file and every folder of either structure is added
\* to the Tree of a render exactly once, with one of the three tags, and
\* nothing else is added.
C3_Partition ==
    pc = "displayed" =>
        /\ PartitionOf(tree1, structure1, structure2)
        /\ PartitionOf(tree2, structure2, structure1)

\* A render that holds all three tags: a shared file, an entry only here
\* and an entry only there.
C3_Witness ==
    /\ pc = "displayed"
    /\ \E i, j, k \in 1..Len(tree1) :
        /\ tree1[i].tag = "common" /\ tree1[i].kind = "file"
        /\ tree1[j].tag = "green"
        /\ tree1[k].tag = "red"

Items(pane) == SelectSeq(pane, LAMBDA t : t.tok = "li")

UniqueIffAbsent(pane, other) ==
    \A i \in 1..Len(Items(pane)) :
        LET item == Items(pane)[i]
        IN (item.class # "") <=> (ItemEntry(item) \notin Entries(other, <<>>))

\* C2: HTML export uniqueness: an item of either pane has the file-unique or
\* directory-unique class if and only if the opposite structure has no entry
\* of that name and kind at the same relative path.
C2_HtmlUniqueIffOnlyHere ==
    (pc = "exported" /\ format = "html") =>
        /\ UniqueIffAbsent(outFile.content.left, structure2)
        /\ UniqueIffAbsent(outFile.content.right, structure1)

\* C4: export format rejection: a call of export_comparison with a
\* format_type other than "txt" and "html" ends in the ValueError that names
\* the value, and leaves the file at output_path as it was (absent, or with
\* its old content).
C4_FormatRejection ==
    [][(pc = "start" /\ format' \in Formats \ {"txt", "html"}) =>
          /\ pc' = ValueError("Unsupported format: " \o format')
          /\ outFile' = outFile]_vars

\* export_comparison("pdf") has raised, and there is no file.
C4_Witness ==
    /\ pc = "ValueError: Unsupported format: pdf"
    /\ format = "pdf"
    /\ outFile = NoFile

AllOnlyHere(tree, pane, s) ==
    /\ pc = "displayed" => Entries(s, <<>>) \subseteq Tagged(tree, "green")
    /\ (pc = "exported" /\ format = "html") =>
          \A x \in Entries(s, <<>>) :
              \E i \in 1..Len(Items(outFile.content[pane])) :
                  /\ ItemEntry(Items(outFile.content[pane])[i]) = x
                  /\ Items(outFile.content[pane])[i].class # ""

TxtRows(content) == SelectSeq(content, LAMBDA l : l.kind = "row")

NothingUnderRoot(tree, pane, side) ==
    /\ pc = "displayed" => tree = <<>>
    /\ (pc = "exported" /\ format = "html") =>
          Items(outFile.content[pane]) = <<>>
    /\ (pc = "exported" /\ format = "txt") =>
          \A i \in 1..Len(TxtRows(outFile.content)) :
              TxtRows(outFile.content)[i][side].kind # "entry"

\* C5: empty-side scenario: when one structure is {} and the other is not,
\* every entry of the non-empty side is only-here in that side's render
\* (interactive view and HTML pane), and the render of the empty side has no
\* entry under its root (interactive view, text column, HTML pane).
C5_EmptySide ==
    /\ (structure2 = EmptyStructure /\ structure1 # EmptyStructure) =>
          /\ AllOnlyHere(tree1, "left", structure1)
          /\ NothingUnderRoot(tree2, "right", "right")
    /\ (structure1 = EmptyStructure /\ structure2 # EmptyStructure) =>
          /\ AllOnlyHere(tree2, "right", structure2)
          /\ NothingUnderRoot(tree1, "left", "left")

LegendHolds(tree) ==
    \A i \in 1..Len(tree) :
        /\ tree[i].tag = "green" =>
              /\ EntryOf(tree[i]) \in Entries(structure1, <<>>)
              /\ EntryOf(tree[i]) \notin Entries(structure2, <<>>)
        /\ tree[i].tag = "red" =>
              /\ EntryOf(tree[i]) \in Entries(structure2, <<>>)
              /\ EntryOf(tree[i]) \notin Entries(structure1, <<>>)

\* C6: legend soundness: in both Trees of display_comparison a green entry
\* is only in dir1 and a red entry is only in dir2.
C6_LegendSound == pc = "displayed" => LegendHolds(tree1) /\ LegendHolds(tree2)

Column(content, side) ==
    SelectSeq([i \in 1..Len(TxtRows(content)) |-> TxtRows(content)[i][side]],
              LAMBDA l : l.kind # "empty")

LineFields == {"kind", "prefix", "connector", "glyph", "name", "path"}

ColumnComplete(column, name, s) ==
    /\ column[1] = RootLine(name)
    /\ Len(column) = 1 + Cardinality(Entries(s, <<>>))
    /\ \A i \in 2..Len(column) :
        /\ column[i].kind = "entry"
        /\ DOMAIN column[i] = LineFields
    /\ {LineEntry(column[i]) : i \in 2..Len(column)} = Entries(s, <<>>)

NoPatterns == Metadata(<<>>, <<>>, FALSE)

\* C7: text export completeness and independence: each column is the root
\* line followed by exactly one line for every file and folder of its own
\* structure, no line has a field for an only-here/only-there mark, and the
\* column is the same when the other side is the empty structure.
C7_TxtComplete ==
    (pc = "exported" /\ format = "txt") =>
        /\ ColumnComplete(Column(outFile.content, "left"),
                          dir1_name, structure1)
        /\ ColumnComplete(Column(outFile.content, "right"),
                          dir2_name, structure2)
        /\ Column(outFile.content, "left") =
              Column(_export_comparison_to_txt(structure1, EmptyStructure,
                                               NoPatterns), "left")
        /\ Column(outFile.content, "right") =
              Column(_export_comparison_to_txt(EmptyStructure, structure2,
                                               NoPatterns), "right")

\* A text export where the left structure has an entry two folders down and
\* the right structure is not empty.
C7_Witness ==
    /\ pc = "exported" /\ format = "txt"
    /\ \E i \in 1..Len(Column(outFile.content, "left")) :
          /\ Column(outFile.content, "left")[i].kind = "entry"
          /\ Len(Column(outFile.content, "left")[i].path) = 2
    /\ Len(Column(outFile.content, "right")) > 1

\* C8: text export column layout: there are max(left lines, right lines)
\* rows; in every row the left cell and its padding are W characters, W being
\* the longest left line plus 4, so the bar is at the same offset; the left
\* cell is the whole line; the rows past the shorter side have an empty cell.
C8_TxtLayout ==
    (pc = "exported" /\ format = "txt") =>
        LET rows == TxtRows(outFile.content)
            left == TxtColumn(dir1_name, structure1)
            right == TxtColumn(dir2_name, structure2)
            W == 4 + LineLen(CHOOSE l \in {left[i] : i \in 1..Len(left)} :
                        \A i \in 1..Len(left) : LineLen(left[i]) <= LineLen(l))
        IN /\ Len(rows) = Max(Len(left), Len(right))
           /\ \A i \in 1..Len(rows) :
               /\ rows[i].padding >= 0
               /\ LineLen(rows[i].left) + rows[i].padding = W
               /\ rows[i].bar = " | "
               /\ rows[i].left =
                    IF i <= Len(left) THEN left[i] ELSE EmptyLine
               /\ rows[i].right =
                    IF i <= Len(right) THEN right[i] ELSE EmptyLine

\* A text export where the right column is the longer one and has the
\* widest line, and two left lines are of different lengths.
C8_Witness ==
    /\ pc = "exported" /\ format = "txt"
    /\ LET rows == TxtRows(outFile.content)
       IN /\ rows[Len(rows)].left = EmptyLine
          /\ \E i \in 1..Len(rows) :
                \A j \in 1..Len(rows) :
                    LineLen(rows[j].left) < LineLen(rows[i].right)
          /\ \E i, j \in 1..Len(rows) :
                /\ rows[i].left.kind = "root"
                /\ rows[j].left.kind = "entry"
                /\ rows[i].padding # rows[j].padding

OwnAt(entries, path) == SelectSeq(entries, LAMBDA e : e.path = path)

ViewOrder(s, other, path) ==
    LET tree == SelectSeq(build_comparison_tree(s, other, <<>>),
                          LAMBDA e : e.tag # "red")
    IN OwnAt([i \in 1..Len(tree) |-> EntryOf(tree[i])], path)

TxtOrder(s, path) ==
    LET lines == _build_txt_tree(s, <<>>, TRUE, <<>>)
    IN OwnAt([i \in 1..Len(lines) |-> LineEntry(lines[i])], path)

HtmlOrder(s, s1, s2, path) ==
    LET items == Items(_build_html_tree(s, TRUE, s1, s2, <<>>))
    IN OwnAt([i \in 1..Len(items) |-> ItemEntry(items[i])], path)

NodePaths(s) == {<<>>} \cup {e.path \o <<e.name>> :
                    e \in {x \in Entries(s, <<>>) : x.kind = "dir"}}

\* C9: ordering agreement across sinks: the interactive view, the text
\* export and the HTML export list the entries of a node of a structure in
\* the same order: files by type and then name, folders by name, and any two
\* entries in the same relative order in all three.
C9_SameOrder ==
    pc = "displayed" =>
        \A path \in NodePaths(structure1) :
            /\ ViewOrder(structure1, structure2, path) =
                  TxtOrder(structure1, path)
            /\ TxtOrder(structure1, path) =
                  HtmlOrder(structure1, structure1, structure2, path)

\* C10: read-only rendering: no call changes structure1 or structure2.
C10_ReadOnly ==
    [][structure1' = structure1 /\ structure2' = structure2]_vars

\* A render has ended on structures whose file lists are not in sorted
\* order.
C10_Witness ==
    /\ pc = "displayed"
    /\ structure1.files # sort_files_by_type(structure1.files)
    /\ structure2.files # sort_files_by_type(structure2.files)

Below(tree, e) ==
    LET root == e.path \o <<e.name>>
    IN {i \in 1..Len(tree) :
            /\ Len(tree[i].path) >= Len(root)
            /\ SubSeq(tree[i].path, 1, Len(root)) = root}

SubtreesMarked(tree) ==
    \A i \in 1..Len(tree) :
        (tree[i].kind = "dir" /\ tree[i].tag \in {"green", "red"}) =>
            \A j \in Below(tree, tree[i]) : tree[j].tag = tree[i].tag

\* C12: whole-subtree marking: a folder of this node that the other node
\* does not have is green with every file and folder below it, at every
\* depth; a folder only the other node has is red with everything below it.
C12_WholeSubtree ==
    pc = "displayed" =>
        /\ SubtreesMarked(tree1)
        /\ SubtreesMarked(tree2)
        /\ \A x \in Entries(structure1, <<>>) \ Entries(structure2, <<>>) :
              x.kind = "dir" =>
                  /\ x \in Tagged(tree1, "green")
                  /\ x \in Tagged(tree2, "red")

\* A green folder with a folder and a file below it, two levels deep, while
\* the other side has a file of the same name at its root.
C12_Witness ==
    /\ pc = "displayed"
    /\ \E i \in 1..Len(tree1) :
        /\ tree1[i].kind = "dir" /\ tree1[i].tag = "green"
        /\ tree1[i].path = <<>>
        /\ \E j, k \in Below(tree1, tree1[i]) :
            /\ tree1[j].kind = "dir"
            /\ tree1[k].kind = "file" /\ Len(tree1[k].path) = 2
            /\ \E m \in 1..Len(tree1) :
                /\ tree1[m].kind = "file" /\ tree1[m].path = <<>>
                /\ tree1[m].name = tree1[k].name

\* The lines of a column that a node emits for its direct entries.
NodeLines(column, path) ==
    SelectSeq(column, LAMBDA l : l.kind = "entry" /\ l.path = path)

ConnectorsWellFormed(column) ==
    \A p \in {column[i].path : i \in 2..Len(column)} :
        LET own == NodeLines(column, p)
        IN \A k \in 1..Len(own) :
            LET final == (k = Len(own))
                below == p \o <<own[k].name>>
            IN /\ own[k].connector = IF final THEN "last" ELSE "mid"
               /\ own[k].glyph = "dir" =>
                    \A i \in 2..Len(column) :
                        (/\ Len(column[i].path) >= Len(below)
                         /\ SubSeq(column[i].path, 1, Len(below)) = below) =>
                            column[i].prefix[Len(below)] =
                                IF final THEN "blank" ELSE "bar"

\* C14: connector well-formedness in the text export: among the lines a
\* node emits for its direct entries (folders, then files) the final one and
\* no other has the elbow connector, every earlier one the tee; the lines
\* below a folder carry four spaces at that folder's depth if the folder is
\* the final entry of its node and the vertical bar otherwise.
C14_Connectors ==
    (pc = "exported" /\ format = "txt") =>
        /\ ConnectorsWellFormed(Column(outFile.content, "left"))
        /\ ConnectorsWellFormed(Column(outFile.content, "right"))

IsNormalized(exts) ==
    \A ext \in exts : startswith_dot(ext) /\ lower(ext) = ext

\* C13: extension-exclusion normalization: after a call of any of the
\* three entry points the exclude_extensions that the two walks received
\* hold only lowercase strings that begin with a dot, are the same set for
\* both walks, and are left unchanged by normalizing them again.
C13_ForwardedNormalized ==
    walks # <<>> =>
        /\ IsNormalized(walks[1]) /\ IsNormalized(walks[2])
        /\ walks[1] = walks[2]
        /\ normalize_extensions(walks[1]) = walks[1]

====
